---------------------------- MODULE Spec2Model ----------------------------
(***************************************************************************)
(* Client-side synchronisation core of the chat application.               *)
(*                                                                         *)
(*  - ChatRoom (src/src/components/ChatRoom.tsx, revision at lines         *)
(*    507-1016): the `messages` state and the handlers that change it.     *)
(*  - WebSocketService (src/src/services/websocket.ts, api.ts): the        *)
(*    connection singleton and the STOMP clients it creates.               *)
(*                                                                         *)
(* Spec     : the ChatRoom conversation state (reconciler + optimistic     *)
(*            operations).                                                 *)
(* SpecConn : the WebSocketService connection lifecycle.                   *)
(***************************************************************************)
EXTENDS Integers, Sequences, FiniteSets, TLC

(***************************************************************************)
(* Bounds of the model                                                     *)
(***************************************************************************)
MaxServerId == 2
\* number of clock ticks the session lasts
MaxTicks == 1
\* number of optimistic edits whose durable request may be in flight
MaxPending == 1
\* number of steps (handler runs and clock ticks) followed in one session
MaxSteps == 4
\* number of Clients the service creates in one session
MaxClients == 2
\* number of transport failures in one session
MaxFailures == 3
\* number of callbacks onConnect and onDisconnect each register in one session
MaxCallbacks == 1
\* number of callbacks registered when a run of notifications starts
MaxHandlers == 3
\* number of notifications in one run
MaxNotifications == 2
\* number of frames the Clients transmit in one session
MaxPublished == 1
\* first value of Date.now() in the session (far above every server id)
T0 == 10

(***************************************************************************)
(* Values                                                                  *)
(***************************************************************************)
\* user.id of the ChatRoom's user, and the other participant
Me == 1
Other == 2
Users == {Me, Other}
\* receiverId: null
NoUser == 0
\* ChatMessageDTO.id absent
NoId == 0
\* lastEdited: null / undefined
NoTime == 0
\* WebSocketService.client: null
NoClient == 0

ServerIds == 1..MaxServerId

\* the literal the handlers write into a tombstoned entry
DeletedMarker == "This message was deleted"

\* a timestamp string is modelled by the instant it denotes, in units of
\* 1/TsUnit millisecond; new Date(s).getTime() keeps the milliseconds only
TsUnit == 2
GetTime(ts) == ts \div TsUnit
\* new Date().toISOString() at Date.now() = ms
ToISOString(ms) == ms * TsUnit

\* sender / receiver travel as decimal strings in the DTO
UserString(u) == ToString(u)
ParseInt(s) == CHOOSE u \in Users : ToString(u) = s
\* receiver absent in the DTO
NoReceiver == ""

\* String.prototype.trim over the contents the model uses
Trim(s) == IF s \in {"", " "} THEN "" ELSE IF s = " B" THEN "B" ELSE s

VARIABLES
  messages,      \* ChatRoom state `messages`
  snackbar,      \* ChatRoom state `snackbar` (severity of the last showSnackbar)
  pendingEdits,  \* handleEditMessage calls suspended at `await editMessage`
  now,           \* Date.now()
  lastOp,        \* the handler that ran last, and what it found
  steps          \* steps taken so far

chatVars == <<messages, snackbar, pendingEdits, now, lastOp, steps>>

VARIABLES
  client,               \* WebSocketService.client: 0 (null) or the latest Client
  isConnected,          \* WebSocketService.isConnected
  subscriptions,        \* WebSocketService.subscriptions: key -> the Client and
                        \* session the subscription was issued on
  messageCallbacks,     \* WebSocketService.messageCallbacks
  errorCallbacks,       \* WebSocketService.errorCallbacks
  connectCallbacks,     \* WebSocketService.connectCallbacks
  disconnectCallbacks,  \* WebSocketService.disconnectCallbacks
  stomp,                \* the Clients created so far: active flag, socket, timer,
                        \* and the number of STOMP sessions they have opened
  shutdown,             \* disconnect() has returned and connect() was not called since
  failures,             \* transport failures of activated Clients so far
  attempts,             \* reconnect attempts started so far
  delays,               \* the delay that preceded each reconnect attempt
  lateAttempts          \* reconnect attempts started while `shutdown`

connVars == <<client, isConnected, subscriptions, messageCallbacks,
              errorCallbacks, connectCallbacks, disconnectCallbacks, stomp,
              shutdown, failures, attempts, delays, lateAttempts>>

VARIABLES
  chatIsConnected,  \* ChatRoom state `isConnected` (the connected indicator)
  dispatch,         \* what the service did with the last inbound frame
  fanout,           \* the last forEach over a callback registry: the array it
                    \* started on and the callbacks it invoked
  outbox            \* the frames the Clients transmitted so far and the outcome
                    \* of the last send method of the service

notifyVars == <<chatIsConnected, dispatch, fanout, outbox>>

vars == <<chatVars, connVars, notifyVars>>

(***************************************************************************)
(* What the server holds and sends                                         *)
(***************************************************************************)
\* the persisted message with server id `id`: ids 1 and 2 carry the same
\* timestamp, later ids an earlier millisecond
ServerType(id) == IF id % 2 = 1 THEN "PUBLIC" ELSE "PRIVATE"
ServerSender(id) == IF id % 4 \in {1, 2} THEN Me ELSE Other
ServerReceiver(id) ==
  IF ServerType(id) = "PUBLIC" THEN NoUser
  ELSE IF ServerSender(id) = Me THEN Other ELSE Me
ServerContent(id) == IF id <= 2 THEN "A" ELSE "B"
ServerTimestamp(id) == IF id <= 2 THEN (T0 + 1) * TsUnit ELSE T0 * TsUnit + 1
\* the instant the server stamps on an edit
ServerEditTime == (T0 + 1) * TsUnit

Contents == {"A", "B"}

\* the Created envelope (type PUBLIC / PRIVATE) of a persisted message
CreatedDTO(id) ==
  [type |-> ServerType(id), id |-> id, content |-> ServerContent(id),
   sender |-> UserString(ServerSender(id)),
   receiver |-> IF ServerReceiver(id) = NoUser THEN NoReceiver
                ELSE UserString(ServerReceiver(id)),
   timestamp |-> ServerTimestamp(id), lastEdited |-> NoTime,
   isDeleted |-> FALSE]

\* an Edited envelope; lastEdited is optional on the wire
EditedDTO(id, content, lastEdited) ==
  [type |-> "MESSAGE_EDIT", id |-> id, content |-> content,
   sender |-> UserString(ServerSender(id)), receiver |-> NoReceiver,
   timestamp |-> NoTime, lastEdited |-> lastEdited, isDeleted |-> FALSE]

\* a Deleted envelope
DeletedDTO(id) ==
  [type |-> "MESSAGE_DELETE", id |-> id, content |-> DeletedMarker,
   sender |-> UserString(ServerSender(id)), receiver |-> NoReceiver,
   timestamp |-> NoTime, lastEdited |-> NoTime, isDeleted |-> TRUE]

CreatedDTOs == {CreatedDTO(id) : id \in ServerIds}
EditedDTOs ==
  {EditedDTO(id, c, le) : id \in ServerIds, c \in Contents,
                          le \in {NoTime, ServerEditTime}}
DeletedDTOs == {DeletedDTO(id) : id \in ServerIds}

\* a Message as the REST history returns it
HistoryMessage(id) ==
  [id |-> id, content |-> ServerContent(id), senderId |-> ServerSender(id),
   receiverId |-> ServerReceiver(id), messageType |-> ServerType(id),
   timestamp |-> ServerTimestamp(id), lastEdited |-> NoTime,
   isDeleted |-> FALSE]

\* getPublicMessages() returns public messages, getUserMessages(user.id)
\* the messages the user sent or received
PublicIds == {id \in ServerIds : ServerType(id) = "PUBLIC"}
UserIds == {id \in ServerIds : ServerSender(id) = Me \/ ServerReceiver(id) = Me}

Min(S) == CHOOSE x \in S : \A y \in S : x <= y
RECURSIVE ResponseOf(_)
\* a response body: the chosen messages in id order
ResponseOf(S) ==
  IF S = {} THEN <<>>
  ELSE <<HistoryMessage(Min(S))>> \o ResponseOf(S \ {Min(S)})

(***************************************************************************)
(* Pure helpers of ChatRoom                                                *)
(***************************************************************************)
Ids(s) == {s[i].id : i \in DOMAIN s}
CountId(s, id) == Cardinality({i \in DOMAIN s : s[i].id = id})
Front(s) == SubSeq(s, 1, Len(s) - 1)

RECURSIVE InsertByTime(_, _)
\* m goes behind the last element whose getTime() is not larger than its own
InsertByTime(s, m) ==
  IF s = <<>> THEN <<m>>
  ELSE IF GetTime(s[Len(s)].timestamp) <= GetTime(m.timestamp)
       THEN Append(s, m)
       ELSE Append(InsertByTime(Front(s), m), s[Len(s)])

RECURSIVE SortByTime(_)
\* Array.prototype.sort((a, b) => getTime(a) - getTime(b)): stable
SortByTime(s) ==
  IF s = <<>> THEN <<>>
  ELSE InsertByTime(SortByTime(Front(s)), s[Len(s)])

\* the key removeDuplicates builds for a message
DuplicateKey(m) ==
  <<m.senderId,
    IF m.receiverId = NoUser THEN "public" ELSE ToString(m.receiverId),
    m.content, GetTime(m.timestamp)>>

RECURSIVE FilterSeen(_)
\* keeps the first message of every key
FilterSeen(s) ==
  IF s = <<>> THEN <<>>
  ELSE IF \E j \in 1..(Len(s) - 1) : DuplicateKey(s[j]) = DuplicateKey(s[Len(s)])
       THEN FilterSeen(Front(s))
       ELSE Append(FilterSeen(Front(s)), s[Len(s)])

\* removeDuplicates that only sorts
removeDuplicatesKeepAll(msgs) == SortByTime(msgs)

removeDuplicates(msgs) == FilterSeen(SortByTime(msgs))

\* the state loadMessageHistory sets from the two responses
loadedHistory(publicData, userData) ==
  removeDuplicates(SortByTime(publicData \o userData))

\* prev.map(m => m.id === id ? f(m) : m)
MapId(prev, id, F(_)) ==
  [i \in DOMAIN prev |-> IF prev[i].id = id THEN F(prev[i]) ELSE prev[i]]

\* the entry a MESSAGE_EDIT envelope leaves in place of m
applyEdit(m, message) ==
  [m EXCEPT !.content = message.content, !.lastEdited = message.lastEdited]

\* a tombstone that forgets the edit time
applyDeleteClearEdited(m) ==
  [m EXCEPT !.isDeleted = TRUE, !.content = DeletedMarker, !.lastEdited = NoTime]

\* a tombstone that keeps the content
applyDeleteKeepContent(m) == [m EXCEPT !.isDeleted = TRUE]

\* the entry a MESSAGE_DELETE envelope leaves in place of m
applyDelete(m) == [m EXCEPT !.isDeleted = TRUE, !.content = DeletedMarker]

\* the Message built from any other envelope
newMessageOf(message, dateNow) ==
  [id |-> IF message.id # NoId THEN message.id ELSE dateNow,
   content |-> message.content,
   senderId |-> ParseInt(message.sender),
   receiverId |-> IF message.receiver # NoReceiver
                  THEN ParseInt(message.receiver) ELSE NoUser,
   messageType |-> message.type,
   timestamp |-> IF message.timestamp # NoTime THEN message.timestamp
                 ELSE ToISOString(dateNow),
   lastEdited |-> message.lastEdited,
   isDeleted |-> message.isDeleted]

\* an insertion that skips the existingIds test
insertNewAlways(prev, newMessage) == SortByTime(Append(prev, newMessage))

\* "Avoid duplicates", then append and sort by getTime()
insertNew(prev, newMessage) ==
  IF newMessage.id \in Ids(prev) THEN prev
  ELSE SortByTime(Append(prev, newMessage))

\* an updater that inserts the entry of an Edited or Deleted envelope whose
\* id the conversation does not hold
reconcileInsertsAbsent(prev, message, dateNow) ==
  LET edited(m) == applyEdit(m, message)
  IN IF message.id \notin Ids(prev)
     THEN insertNew(prev, newMessageOf(message, dateNow))
     ELSE IF message.type = "MESSAGE_EDIT" THEN MapId(prev, message.id, edited)
     ELSE IF message.type = "MESSAGE_DELETE" THEN MapId(prev, message.id, applyDelete)
     ELSE insertNew(prev, newMessageOf(message, dateNow))

\* the updater handleNewMessage passes to setMessages
reconcile(prev, message, dateNow) ==
  LET edited(m) == applyEdit(m, message)
  IN IF message.type = "MESSAGE_EDIT" THEN MapId(prev, message.id, edited)
     ELSE IF message.type = "MESSAGE_DELETE" THEN MapId(prev, message.id, applyDelete)
     ELSE insertNew(prev, newMessageOf(message, dateNow))

\* id of the provisional message of a private send
TempId(dateNow, userId, selectedUserId) ==
  (dateNow * 10 + userId) * 10 + selectedUserId

tempMessage(content, selectedUser, dateNow) ==
  [id |-> TempId(dateNow, Me, selectedUser), content |-> content,
   senderId |-> Me, receiverId |-> selectedUser, messageType |-> "PRIVATE",
   timestamp |-> ToISOString(dateNow), lastEdited |-> NoTime,
   isDeleted |-> FALSE]

\* the updater handlePrivateMessageSend passes to setMessages
addTempMessage(prev, temp) ==
  IF \E i \in DOMAIN prev :
       \/ prev[i].id = temp.id
       \/ /\ prev[i].content = temp.content
          /\ prev[i].senderId = temp.senderId
          /\ prev[i].receiverId = temp.receiverId
  THEN prev
  ELSE Append(prev, temp)

\* what WebSocketService.editMessage resolves to; restOk is the outcome of
\* the REST PUT
editMessageResult(messageId, userId, newContent, restOk) ==
  IF newContent = "" \/ Trim(newContent) = "" THEN FALSE
  ELSE IF messageId = NoId \/ userId = NoUser THEN FALSE
  ELSE restOk

\* showSnackbar(message, severity)
Snack(message, severity) == [open |-> TRUE, message |-> message, severity |-> severity]

\* messages.find(m => m.id === id)
FindById(s, id) == s[Min({i \in DOMAIN s : s[i].id = id})]

Op(name, id, present) == [op |-> name, present |-> present]

(***************************************************************************)
(* ChatRoom: initial state and handlers                                    *)
(***************************************************************************)
ChatInit ==
  /\ messages = <<>>
  /\ snackbar = [open |-> FALSE, message |-> "", severity |-> "info"]
  /\ pendingEdits = <<>>
  /\ now = T0
  /\ lastOp = Op("none", NoId, FALSE)
  /\ steps = 0

\* time passes
Tick ==
  /\ now < T0 + MaxTicks
  /\ now' = now + 1
  /\ UNCHANGED <<messages, snackbar, pendingEdits, lastOp>>

\* handleNewMessage(message), as the service's message callback
handleNewMessage(message) ==
  /\ messages' = reconcile(messages, message, now)
  /\ lastOp' = Op(message.type, message.id, message.id \in Ids(messages))
  /\ UNCHANGED <<snackbar, pendingEdits, now>>

ReceiveCreated == \E message \in CreatedDTOs : handleNewMessage(message)
ReceiveEdited == \E message \in EditedDTOs : handleNewMessage(message)
ReceiveDeleted == \E message \in DeletedDTOs : handleNewMessage(message)

\* loadMessageHistory() completing with the two responses
loadMessageHistory ==
  \E pub \in SUBSET PublicIds, usr \in SUBSET UserIds :
    /\ messages' = loadedHistory(ResponseOf(pub), ResponseOf(usr))
    /\ lastOp' = Op("HISTORY", NoId, pub \cap usr # {})
    /\ UNCHANGED <<snackbar, pendingEdits, now>>

\* a send method that publishes whenever a Client exists
publishedWithoutFlag == client # NoClient

\* the guard of sendPublicMessage / sendPrivateMessage / deleteMessage: the
\* frame is published only when the service is connected
published == isConnected /\ client # NoClient

\* handleSendMessage(content, receiver): hands the content to the service
\* and leaves the ChatRoom state alone
handleSendMessageOf(content, receiver) ==
  /\ lastOp' = Op(IF receiver # NoUser THEN "SEND_PRIVATE" ELSE "SEND_PUBLIC",
                  NoId, published)
  /\ UNCHANGED <<messages, snackbar, pendingEdits, now>>

\* handleSendMessage(content) as MessageInput calls it: a public send
handleSendMessage ==
  \E content \in Contents : handleSendMessageOf(content, NoUser)

\* handlePrivateMessageSend(content) with selectedUser = Other
handlePrivateMessageSendOf(content) ==
  LET temp == tempMessage(content, Other, now)
  IN /\ messages' = addTempMessage(messages, temp)
     /\ lastOp' = Op("SEND_PRIVATE", temp.id,
                     addTempMessage(messages, temp) = messages)
     /\ UNCHANGED <<snackbar, pendingEdits, now>>

handlePrivateMessageSend ==
  \E content \in Contents : handlePrivateMessageSendOf(content)

\* the contents the edit dialog may submit
EditInputs == Contents \cup {"", " ", " B"}

\* the optimistic change handleEditMessage applies to the entry
applyLocalEdit(m, newContent, dateNow) ==
  [m EXCEPT !.content = newContent, !.lastEdited = ToISOString(dateNow)]

\* handleEditMessage(messageId, newContent) up to its await
handleEditMessageOf(messageId, newContent) ==
  /\ now' = now
  /\ IF messageId \notin Ids(messages)
     THEN /\ snackbar' = Snack("Message not found", "error")
          /\ lastOp' = Op("EDIT_REJECTED", messageId, FALSE)
          /\ UNCHANGED <<messages, pendingEdits>>
     ELSE LET messageToEdit == FindById(messages, messageId)
              applied(m) == applyLocalEdit(m, newContent, now)
          IN IF newContent = "" \/ Trim(newContent) = ""
             THEN /\ snackbar' = Snack("Message content cannot be empty", "error")
                  /\ lastOp' = Op("EDIT_REJECTED", messageId, TRUE)
                  /\ UNCHANGED <<messages, pendingEdits>>
             ELSE IF Trim(newContent) = messageToEdit.content
             THEN /\ snackbar' = Snack("No changes made", "info")
                  /\ lastOp' = Op("EDIT_REJECTED", messageId, TRUE)
                  /\ UNCHANGED <<messages, pendingEdits>>
             ELSE /\ Len(pendingEdits) < MaxPending
                  /\ messages' = MapId(messages, messageId, applied)
                  /\ pendingEdits' =
                       Append(pendingEdits,
                              [messageId |-> messageId,
                               messageToEdit |-> messageToEdit,
                               newContent |-> newContent])
                  /\ lastOp' = Op("EDIT", messageId, TRUE)
                  /\ UNCHANGED snackbar

handleEditMessage ==
  \E messageId \in ServerIds \cup Ids(messages), newContent \in EditInputs :
    handleEditMessageOf(messageId, newContent)

\* a resumed call that stays suspended
RemoveAtKeep(s, i) == s

\* the suspended call i has resumed
RemoveAt(s, i) == SubSeq(s, 1, i - 1) \o SubSeq(s, i + 1, Len(s))

\* a revert that puts back the content only
revertEditContentOnly(msg, messageToEdit) ==
  [msg EXCEPT !.content = messageToEdit.content]

\* "Revert local changes": the entry is replaced by the snapshot
revertEdit(msg, messageToEdit) == messageToEdit

\* handleEditMessage resuming after `await WebSocketService.editMessage` for
\* the i-th suspended call
editResolvedAt(i, restOk) ==
  LET p == pendingEdits[i]
      success == editMessageResult(p.messageId, Me, p.newContent, restOk)
      revert(m) == revertEdit(m, p.messageToEdit)
  IN /\ pendingEdits' = RemoveAt(pendingEdits, i)
     /\ now' = now
     /\ IF success
        THEN /\ snackbar' = Snack("Message edited successfully", "success")
             /\ lastOp' = Op("EDIT_OK", p.messageId, p.messageId \in Ids(messages))
             /\ UNCHANGED messages
        ELSE /\ messages' = MapId(messages, p.messageId, revert)
             /\ snackbar' = Snack("Failed to edit message", "error")
             /\ lastOp' = Op("EDIT_FAILED", p.messageId, p.messageId \in Ids(messages))

editResolved ==
  \E i \in DOMAIN pendingEdits, restOk \in BOOLEAN : editResolvedAt(i, restOk)

\* handleDeleteMessage(messageId); what deleteMessage returns is not used
handleDeleteMessageOf(messageId) ==
  LET deleted(m) == [m EXCEPT !.isDeleted = TRUE, !.content = DeletedMarker]
  IN /\ lastOp' = Op("DELETE", messageId, messageId \in Ids(messages))
     /\ UNCHANGED <<pendingEdits, now>>
     /\ IF messageId \in Ids(messages)
        THEN /\ messages' = MapId(messages, messageId, deleted)
             /\ snackbar' = Snack("Message deleted successfully", "success")
        ELSE UNCHANGED <<messages, snackbar>>

handleDeleteMessage ==
  \E messageId \in ServerIds \cup Ids(messages) : handleDeleteMessageOf(messageId)

\* one more step within the session
Run(handler) ==
  /\ steps < MaxSteps
  /\ steps' = steps + 1
  /\ handler
  /\ UNCHANGED <<connVars, notifyVars>>

ChatNext ==
  \/ Run(Tick)
  \/ Run(ReceiveCreated)
  \/ Run(ReceiveEdited)
  \/ Run(ReceiveDeleted)
  \/ Run(loadMessageHistory)
  \/ Run(handleSendMessage)
  \/ Run(handlePrivateMessageSend)
  \/ Run(handleEditMessage)
  \/ Run(editResolved)
  \/ Run(handleDeleteMessage)

(***************************************************************************)
(* WebSocketService and the STOMP Clients it creates                       *)
(***************************************************************************)
\* reconnectDelay of the Client configuration
ReconnectDelay == 5000

\* the keys setupSubscriptions sets: /topic/public, /user/queue/messages,
\* /topic/users and the error queue
SubscriptionKeys == {"public", "user-messages", "user-events", "errors"}
\* the keys of the broadcast, direct and error channels
DeclaredChannels == {"public", "user-messages", "errors"}

ConnInit ==
  /\ client = NoClient
  /\ isConnected = FALSE
  /\ subscriptions = <<>>
  /\ messageCallbacks = <<>>
  /\ errorCallbacks = <<>>
  /\ connectCallbacks = <<>>
  /\ disconnectCallbacks = <<>>
  /\ stomp = <<>>
  /\ shutdown = FALSE
  /\ failures = 0
  /\ attempts = 0
  /\ delays = <<>>
  /\ lateAttempts = 0

historyVars == <<shutdown, failures, attempts, delays, lateAttempts>>
registries == <<messageCallbacks, errorCallbacks, connectCallbacks, disconnectCallbacks>>

\* connect(userId, onMessageReceived, onError): registers the two callbacks,
\* replaces this.client by a new Client and activates it
connect ==
  /\ Len(stomp) < MaxClients
  /\ messageCallbacks' = Append(messageCallbacks, "handleNewMessage")
  /\ errorCallbacks' = Append(errorCallbacks, "onError")
  /\ client' = Len(stomp) + 1
  /\ stomp' = Append(stomp, [active |-> TRUE, socket |-> "connecting",
                              timer |-> FALSE, session |-> 0])
  /\ shutdown' = FALSE
  /\ UNCHANGED <<isConnected, subscriptions, connectCallbacks,
                 disconnectCallbacks, failures, attempts, delays, lateAttempts>>
  /\ UNCHANGED <<snackbar, chatIsConnected>>

\* onConnect(callback)
onConnect ==
  /\ Len(connectCallbacks) < MaxCallbacks
  /\ connectCallbacks' = Append(connectCallbacks, "setIsConnected(true)")
  /\ UNCHANGED <<client, isConnected, subscriptions, messageCallbacks,
                 errorCallbacks, disconnectCallbacks, stomp, historyVars>>
  /\ UNCHANGED <<snackbar, chatIsConnected>>

\* onDisconnect(callback)
onDisconnect ==
  /\ Len(disconnectCallbacks) < MaxCallbacks
  /\ disconnectCallbacks' = Append(disconnectCallbacks, "setIsConnected(false)")
  /\ UNCHANGED <<client, isConnected, subscriptions, messageCallbacks,
                 errorCallbacks, connectCallbacks, stomp, historyVars>>
  /\ UNCHANGED <<snackbar, chatIsConnected>>

\* setupSubscriptions(): this.client.subscribe(...) for every key; subscribe
\* throws when this.client has no STOMP connection, before the first set()
setupSubscriptions(subs, cl, st) ==
  IF cl = NoClient THEN [done |-> TRUE, subs |-> subs]
  ELSE IF st[cl].socket # "connected" THEN [done |-> FALSE, subs |-> subs]
  ELSE [done |-> TRUE,
        subs |-> [k \in SubscriptionKeys |->
                    [client |-> cl, session |-> st[cl].session]]]

\* an onConnect callback that runs the connect callbacks before
\* setupSubscriptions
clientOnConnectNotifyFirst(c) ==
  /\ stomp[c].active
  /\ stomp[c].socket = "connecting"
  /\ stomp' = [stomp EXCEPT ![c].socket = "connected",
                             ![c].session = stomp[c].session + 1]
  /\ isConnected' = TRUE
  /\ subscriptions' = setupSubscriptions(subscriptions, client, stomp').subs
  /\ IF connectCallbacks # <<>>
     THEN /\ chatIsConnected' = TRUE
          /\ snackbar' = Snack("Connected to chat", "success")
     ELSE UNCHANGED <<snackbar, chatIsConnected>>
  /\ UNCHANGED <<client, registries, historyVars>>

\* the onConnect callback of Client c: the handshake of an active Client
\* has succeeded; the connect callbacks run when setupSubscriptions returned
clientOnConnect(c) ==
  /\ stomp[c].active
  /\ stomp[c].socket = "connecting"
  /\ stomp' = [stomp EXCEPT ![c].socket = "connected",
                             ![c].session = stomp[c].session + 1]
  /\ isConnected' = TRUE
  /\ subscriptions' = setupSubscriptions(subscriptions, client, stomp').subs
  /\ IF setupSubscriptions(subscriptions, client, stomp').done
        /\ connectCallbacks # <<>>
     THEN /\ chatIsConnected' = TRUE
          /\ snackbar' = Snack("Connected to chat", "success")
     ELSE UNCHANGED <<snackbar, chatIsConnected>>
  /\ UNCHANGED <<client, registries, historyVars>>

\* a Client that schedules no reconnect after a transport failure
clientOnWebSocketCloseNoRetry(c) ==
  /\ stomp[c].socket \in {"connecting", "connected"}
  /\ failures < MaxFailures
  /\ failures' = failures + 1
  /\ isConnected' = FALSE
  /\ stomp' = [stomp EXCEPT ![c].socket = "none"]
  /\ UNCHANGED <<client, subscriptions, registries, shutdown, attempts, delays,
                 lateAttempts>>
  /\ UNCHANGED <<snackbar, chatIsConnected>>

\* the onWebSocketClose callback of Client c after a transport failure; an
\* active Client then schedules a reconnect after reconnectDelay
clientOnWebSocketClose(c) ==
  /\ stomp[c].socket \in {"connecting", "connected"}
  /\ failures < MaxFailures
  /\ failures' = failures + 1
  /\ isConnected' = FALSE
  /\ stomp' = [stomp EXCEPT ![c].socket = "none", ![c].timer = stomp[c].active]
  /\ delays' = IF stomp[c].active THEN Append(delays, ReconnectDelay) ELSE delays
  /\ UNCHANGED <<client, subscriptions, registries, shutdown, attempts, lateAttempts>>
  /\ UNCHANGED <<snackbar, chatIsConnected>>

\* the reconnect timer of Client c fires: a reconnect attempt starts
clientReconnect(c) ==
  /\ stomp[c].active
  /\ stomp[c].timer
  /\ stomp' = [stomp EXCEPT ![c].timer = FALSE, ![c].socket = "connecting"]
  /\ attempts' = attempts + 1
  /\ lateAttempts' = IF shutdown THEN lateAttempts + 1 ELSE lateAttempts
  /\ UNCHANGED <<client, isConnected, subscriptions, registries, shutdown,
                 failures, delays>>
  /\ UNCHANGED <<snackbar, chatIsConnected>>

\* Client.deactivate(): no further reconnect, the timer is cleared, the
\* socket is closed
deactivate(st, c) ==
  [st EXCEPT ![c].active = FALSE,
             ![c].timer = FALSE,
             ![c].socket = IF st[c].socket = "connected" THEN "disconnecting"
                           ELSE IF st[c].socket = "connecting" THEN "closing"
                           ELSE st[c].socket]

\* a disconnect() that leaves the message and error callbacks registered
disconnectKeepMessageCallbacks ==
  /\ connectCallbacks' = <<>>
  /\ disconnectCallbacks' = <<>>
  /\ subscriptions' = <<>>
  /\ IF client # NoClient
     THEN /\ stomp' = deactivate(stomp, client)
          /\ isConnected' = FALSE
     ELSE UNCHANGED <<stomp, isConnected>>
  /\ shutdown' = TRUE
  /\ UNCHANGED <<client, messageCallbacks, errorCallbacks, failures, attempts,
                 delays, lateAttempts>>
  /\ UNCHANGED <<snackbar, chatIsConnected>>

\* a disconnect() that leaves the connect callbacks registered
disconnectKeepConnectCallbacks ==
  /\ messageCallbacks' = <<>>
  /\ errorCallbacks' = <<>>
  /\ disconnectCallbacks' = <<>>
  /\ subscriptions' = <<>>
  /\ IF client # NoClient
     THEN /\ stomp' = deactivate(stomp, client)
          /\ isConnected' = FALSE
     ELSE UNCHANGED <<stomp, isConnected>>
  /\ shutdown' = TRUE
  /\ UNCHANGED <<client, connectCallbacks, failures, attempts, delays, lateAttempts>>
  /\ UNCHANGED <<snackbar, chatIsConnected>>

\* disconnect()
disconnect ==
  /\ messageCallbacks' = <<>>
  /\ errorCallbacks' = <<>>
  /\ connectCallbacks' = <<>>
  /\ disconnectCallbacks' = <<>>
  /\ subscriptions' = <<>>
  /\ IF client # NoClient
     THEN /\ stomp' = deactivate(stomp, client)
          /\ isConnected' = FALSE
     ELSE UNCHANGED <<stomp, isConnected>>
  /\ shutdown' = TRUE
  /\ UNCHANGED <<client, failures, attempts, delays, lateAttempts>>
  /\ UNCHANGED <<snackbar, chatIsConnected>>

\* the onDisconnect callback of Client c: the broker acknowledged the
\* DISCONNECT frame of a deactivated Client; the disconnect callbacks run
clientOnDisconnect(c) ==
  /\ stomp[c].socket = "disconnecting"
  /\ stomp' = [stomp EXCEPT ![c].socket = "closing"]
  /\ isConnected' = FALSE
  /\ IF disconnectCallbacks # <<>>
     THEN /\ chatIsConnected' = FALSE
          /\ snackbar' = Snack("Disconnected from chat", "warning")
     ELSE UNCHANGED <<snackbar, chatIsConnected>>
  /\ UNCHANGED <<client, subscriptions, registries, historyVars>>

\* the onWebSocketClose callback of Client c when the socket of a
\* deactivated Client has closed
clientOnClosed(c) ==
  /\ stomp[c].socket \in {"disconnecting", "closing"}
  /\ stomp' = [stomp EXCEPT ![c].socket = "none"]
  /\ isConnected' = FALSE
  /\ UNCHANGED <<client, subscriptions, registries, historyVars>>
  /\ UNCHANGED <<snackbar, chatIsConnected>>

\* the ChatRoom state the service's callbacks do not reach
conversationVars == <<messages, pendingEdits, now, lastOp, steps>>

\* a step of the service that is not the arrival of a frame
Service(step) == step /\ UNCHANGED <<conversationVars, dispatch, fanout, outbox>>

\* the subscription under key k is held on a session that is open
subscribed(k) ==
  /\ k \in DOMAIN subscriptions
  /\ stomp[subscriptions[k].client].socket = "connected"
  /\ stomp[subscriptions[k].client].session = subscriptions[k].session

\* frame handlers that pass error frames on to handleIncomingMessage
frameOutcomeErrorsReconciled(k, parsed, msgCallbacks, errCallbacks) ==
  IF k = "user-events"
  THEN [key |-> k, parsed |-> parsed, messageCalls |-> 0, errorCalls |-> 0,
        escaped |-> ~parsed]
  ELSE [key |-> k, parsed |-> parsed,
        messageCalls |-> IF parsed THEN Len(msgCallbacks) ELSE 0,
        errorCalls |-> IF k = "errors" /\ parsed THEN Len(errCallbacks) ELSE 0,
        escaped |-> FALSE]

\* what the callback of subscription k does with a frame whose body parses
\* or not: handleIncomingMessage and the error callback catch the parse
\* error, the user-event callback parses outside any try
frameOutcome(k, parsed, msgCallbacks, errCallbacks) ==
  IF k \in {"public", "user-messages"}
  THEN [key |-> k, parsed |-> parsed,
        messageCalls |-> IF parsed THEN Len(msgCallbacks) ELSE 0,
        errorCalls |-> 0, escaped |-> FALSE]
  ELSE IF k = "errors"
  THEN [key |-> k, parsed |-> parsed, messageCalls |-> 0,
        errorCalls |-> IF parsed THEN Len(errCallbacks) ELSE 0,
        escaped |-> FALSE]
  ELSE [key |-> k, parsed |-> parsed, messageCalls |-> 0, errorCalls |-> 0,
        escaped |-> ~parsed]

RECURSIVE reconcileTimes(_, _, _, _)
\* the conversation after n message callbacks, each handleNewMessage, ran
reconcileTimes(prev, message, dateNow, n) ==
  IF n = 0 THEN prev
  ELSE reconcileTimes(reconcile(prev, message, dateNow), message, dateNow, n - 1)

\* the callback of subscription k runs on a frame; message is the envelope
\* of a frame of the message queues whose body parses
handleFrame(k, parsed, message, late) ==
  LET outcome == frameOutcome(k, parsed, messageCallbacks, errorCallbacks)
  IN /\ dispatch' = [late |-> late] @@ outcome
     /\ IF outcome.messageCalls > 0
        THEN /\ messages' = reconcileTimes(messages, message, now, outcome.messageCalls)
             /\ lastOp' = Op(message.type, message.id, message.id \in Ids(messages))
        ELSE UNCHANGED <<messages, lastOp>>
     /\ IF outcome.errorCalls > 0
        THEN /\ snackbar' = Snack("Connection error", "error")
             /\ chatIsConnected' = FALSE
        ELSE UNCHANGED <<snackbar, chatIsConnected>>
     /\ UNCHANGED <<pendingEdits, now, steps, connVars, fanout, outbox>>

\* a frame arrives on subscription k
receiveFrame(k, parsed, message) ==
  /\ subscribed(k)
  /\ handleFrame(k, parsed, message, FALSE)

\* a frame that was in flight when disconnect() deactivated its Client
\* reaches the callback of subscription k before the socket has closed
lateFrame(k, parsed, message) ==
  /\ \E c \in DOMAIN stomp : ~stomp[c].active /\ stomp[c].socket = "disconnecting"
  /\ handleFrame(k, parsed, message, TRUE)

ConnNext ==
  \/ Service(connect)
  \/ Service(onConnect)
  \/ Service(onDisconnect)
  \/ Service(disconnect)
  \/ \E c \in DOMAIN stomp : Service(clientOnConnect(c))
  \/ \E c \in DOMAIN stomp : Service(clientOnWebSocketClose(c))
  \/ \E c \in DOMAIN stomp : Service(clientReconnect(c))
  \/ \E c \in DOMAIN stomp : Service(clientOnDisconnect(c))
  \/ \E c \in DOMAIN stomp : Service(clientOnClosed(c))

\* no frame has arrived
NoDispatch == [key |-> "none", parsed |-> FALSE, messageCalls |-> 0,
               errorCalls |-> 0, escaped |-> FALSE, late |-> FALSE]

\* no send method has been called
NoOutbox == [count |-> 0, op |-> "none", transmitted |-> FALSE,
             returned |-> "none"]

\* no registry has been iterated
NoFanout == [over |-> "none", before |-> <<>>, snapshot |-> <<>>,
             invoked |-> <<>>, firstId |-> 1, nextId |-> 1, count |-> 0]

NotifyInit ==
  /\ chatIsConnected = FALSE
  /\ dispatch = NoDispatch
  /\ fanout = NoFanout
  /\ outbox = NoOutbox

Init == ChatInit /\ ConnInit /\ NotifyInit

\* the conversation state of one ChatRoom
Spec == Init /\ [][ChatNext]_vars

\* the connection service
SpecConn == Init /\ [][ConnNext]_vars

\* connect(), disconnect() and the callbacks of the Clients
LiveNext ==
  \/ Service(connect)
  \/ Service(disconnect)
  \/ \E c \in DOMAIN stomp : Service(clientOnConnect(c))
  \/ \E c \in DOMAIN stomp : Service(clientOnWebSocketClose(c))
  \/ \E c \in DOMAIN stomp : Service(clientReconnect(c))
  \/ \E c \in DOMAIN stomp : Service(clientOnDisconnect(c))
  \/ \E c \in DOMAIN stomp : Service(clientOnClosed(c))

\* the connection service when every reconnect timer fires and the transport
\* accepts a handshake that stays pending
SpecConnLive ==
  /\ Init
  /\ [][LiveNext]_vars
  /\ \A c \in 1..MaxClients :
       /\ WF_vars(c \in DOMAIN stomp /\ Service(clientReconnect(c)))
       /\ WF_vars(c \in DOMAIN stomp /\ Service(clientOnConnect(c)))

RouterNext ==
  \/ Service(connect)
  \/ Service(onConnect)
  \/ Service(disconnect)
  \/ \E c \in DOMAIN stomp : Service(clientOnConnect(c))
  \/ \E c \in DOMAIN stomp : Service(clientOnDisconnect(c))
  \/ \E c \in DOMAIN stomp : Service(clientOnClosed(c))
  \/ \E k \in SubscriptionKeys, parsed \in BOOLEAN, message \in CreatedDTOs :
       receiveFrame(k, parsed, message)

\* the service with frames arriving on its subscriptions
SpecRouter == Init /\ [][RouterNext]_vars

LateNext ==
  \/ Service(connect)
  \/ Service(disconnect)
  \/ \E c \in DOMAIN stomp : Service(clientOnConnect(c))
  \/ \E c \in DOMAIN stomp : Service(clientOnDisconnect(c))
  \/ \E c \in DOMAIN stomp : Service(clientOnClosed(c))
  \/ \E k \in SubscriptionKeys, message \in CreatedDTOs :
       receiveFrame(k, TRUE, message)
  \/ \E k \in SubscriptionKeys, message \in CreatedDTOs :
       lateFrame(k, TRUE, message)

\* the service with frames whose body parses arriving on its subscriptions,
\* also on those of a session that disconnect() is closing
SpecLate == Init /\ [][LateNext]_vars

(***************************************************************************)
(* Properties of the conversation state (Spec)                             *)
(***************************************************************************)
IsProvisional(m) == m.id \notin ServerIds

\* C1: delivering a Created envelope whose id is already in the
\* conversation (a second delivery) leaves the conversation as it was, and
\* after any delivery of a Created envelope exactly one entry carries its id.
C1_CreatedIdempotent ==
  [][\A message \in CreatedDTOs :
       handleNewMessage(message) =>
         /\ CountId(messages', message.id) = 1
         /\ (message.id \in Ids(messages) => messages' = messages)]_vars

\* a Created envelope was delivered while its entry was present
C1_Witness ==
  /\ lastOp.op \in {"PUBLIC", "PRIVATE"}
  /\ lastOp.present
  /\ \E id \in ServerIds : CountId(messages, id) = 1

\* C2: in every reachable state the conversation is sorted ascending by
\* (timestamp, id): entries of equal timestamp are ordered by id.
C2_SortedByTimestampThenId ==
  \A i, j \in DOMAIN messages :
    i < j =>
      \/ GetTime(messages[i].timestamp) < GetTime(messages[j].timestamp)
      \/ /\ GetTime(messages[i].timestamp) = GetTime(messages[j].timestamp)
         /\ messages[i].id < messages[j].id

C4_FingerprintReplace ==
  [][\A message \in CreatedDTOs :
       LET created == newMessageOf(message, now)
           same(m) == /\ m.senderId = created.senderId
                      /\ m.receiverId = created.receiverId
                      /\ m.content = created.content
       IN ( /\ handleNewMessage(message)
            /\ \E i \in DOMAIN messages :
                 /\ IsProvisional(messages[i])
                 /\ same(messages[i])
                 /\ GetTime(messages[i].timestamp) = GetTime(created.timestamp) )
          => /\ Cardinality({i \in DOMAIN messages' : same(messages'[i])}) = 1
             /\ \A i \in DOMAIN messages' :
                  same(messages'[i]) => messages'[i].id = message.id]_vars

\* C5: an Edited envelope for an id that is present sets the entry's content
\* to the envelope's content and sets lastEdited; the entry's timestamp, id
\* and position and every other entry are unchanged.
C5_EditApplied ==
  [][\A message \in EditedDTOs :
       (handleNewMessage(message) /\ message.id \in Ids(messages))
       => /\ Len(messages') = Len(messages)
          /\ \A i \in DOMAIN messages :
               IF messages[i].id = message.id
               THEN /\ messages'[i].content = message.content
                    /\ messages'[i].lastEdited # NoTime
                    /\ messages'[i].timestamp = messages[i].timestamp
                    /\ messages'[i].id = messages[i].id
               ELSE messages'[i] = messages[i]]_vars

\* C6: a Deleted envelope for an id that is present sets isDeleted on the
\* entry and replaces its content by the deletion marker; the entry stays
\* where it is in the conversation.
C6_DeleteTombstone ==
  [][\A message \in DeletedDTOs :
       (handleNewMessage(message) /\ message.id \in Ids(messages))
       => /\ Len(messages') = Len(messages)
          /\ \A i \in DOMAIN messages :
               /\ messages'[i].id = messages[i].id
               /\ messages[i].id = message.id
                    => /\ messages'[i].isDeleted
                       /\ messages'[i].content = DeletedMarker]_vars

\* a Deleted envelope has tombstoned an entry
C6_Witness ==
  /\ lastOp = Op("MESSAGE_DELETE", NoId, TRUE)
  /\ \E i \in DOMAIN messages :
       messages[i].isDeleted /\ messages[i].content = DeletedMarker

\* C7: in every reachable state the content of a tombstoned entry is the
\* deletion marker: no later Edited envelope and no later local edit changes
\* it.
C7_TombstoneContentFixed ==
  \A i \in DOMAIN messages :
    messages[i].isDeleted => messages[i].content = DeletedMarker

\* C8: handleEditMessage snapshots the entry as it is before the optimistic
\* change, and when the durable request fails every entry with that id is
\* again the snapshot (content and lastEdited as before the edit, same id),
\* no entry appears or disappears, and an error is shown.
C8_EditRollback ==
  [][/\ \A messageId \in ServerIds \cup Ids(messages), newContent \in EditInputs :
          (handleEditMessageOf(messageId, newContent) /\ lastOp'.op = "EDIT")
          => LET p == pendingEdits'[Len(pendingEdits')]
                 before == FindById(messages, messageId)
             IN /\ p.messageId = messageId
                /\ p.messageToEdit.content = before.content
                /\ p.messageToEdit.lastEdited = before.lastEdited
                /\ p.messageToEdit.id = messageId
     /\ \A i \in DOMAIN pendingEdits :
          (editResolvedAt(i, FALSE) /\ lastOp'.op = "EDIT_FAILED")
          => LET p == pendingEdits[i]
             IN /\ [k \in DOMAIN messages' |-> messages'[k].id]
                     = [k \in DOMAIN messages |-> messages[k].id]
                /\ \A k \in DOMAIN messages' :
                     messages'[k].id = p.messageId
                       => /\ messages'[k].content = p.messageToEdit.content
                          /\ messages'[k].lastEdited = p.messageToEdit.lastEdited
                /\ snackbar'.open
                /\ snackbar'.severity = "error"]_vars

\* a failed edit of a present entry has been rolled back to an entry that
\* was never edited
C8_Witness ==
  /\ lastOp = Op("EDIT_FAILED", NoId, TRUE)
  /\ snackbar.severity = "error"
  /\ \E i \in DOMAIN messages : messages[i].lastEdited = NoTime

(***************************************************************************)
(* Properties of the connection service (SpecConn)                         *)
(***************************************************************************)
\* C9: once disconnect() has returned, and until connect() is called again,
\* the service is never Connected (isConnected is never true).
C9_NeverConnectedAfterDisconnect == shutdown => ~isConnected

\* C10: every transport failure is followed by exactly one reconnect attempt
\* (an attempt started, or its timer pending, for each failure as long as
\* disconnect() was not called), the delays before the attempts never
\* decrease, and no reconnect attempt starts after disconnect().
C10_ReconnectBackoff ==
  LET pending == Cardinality({c \in DOMAIN stomp : stomp[c].timer})
  IN /\ attempts + pending <= failures
     /\ (\A c \in DOMAIN stomp : stomp[c].active) => attempts + pending = failures
     /\ \A i, j \in DOMAIN delays : i < j => delays[i] <= delays[j]
     /\ lateAttempts = 0

\* C11: in every state in which the service is Connected, exactly the three
\* channels (broadcast, direct, errors) are subscribed, each on the session
\* the service's current Client has open.
C11_SubscribedWhenConnected ==
  isConnected =>
    /\ client # NoClient
    /\ stomp[client].socket = "connected"
    /\ DOMAIN subscriptions = DeclaredChannels
    /\ \A k \in DeclaredChannels :
         subscriptions[k] = [client |-> client, session |-> stomp[client].session]

\* the state disconnect() leaves: Disconnected, nothing subscribed, the four
\* callback registries empty, the current Client deactivated
AfterDisconnect ==
  /\ ~isConnected
  /\ subscriptions = <<>>
  /\ messageCallbacks = <<>>
  /\ errorCallbacks = <<>>
  /\ connectCallbacks = <<>>
  /\ disconnectCallbacks = <<>>
  /\ shutdown
  /\ client # NoClient =>
       /\ ~stomp[client].active
       /\ ~stomp[client].timer
       /\ stomp[client].socket \notin {"connecting", "connected"}

\* C12: disconnect() can be called in every state; after it the service is
\* Disconnected, the subscription map is empty and the message, error,
\* connect and disconnect callback registries are empty; called again in the
\* state it left, it changes nothing.
C12_DisconnectIdempotent ==
  /\ [](ENABLED Service(disconnect))
  /\ [][Service(disconnect) =>
          /\ ~isConnected'
          /\ subscriptions' = <<>>
          /\ messageCallbacks' = <<>>
          /\ errorCallbacks' = <<>>
          /\ connectCallbacks' = <<>>
          /\ disconnectCallbacks' = <<>>
          /\ AfterDisconnect'
          /\ (AfterDisconnect => UNCHANGED vars)]_vars

\* disconnect() was called while the service was Connected with callbacks
\* registered, and has cleared everything
C12_Witness ==
  /\ AfterDisconnect
  /\ client # NoClient
  /\ stomp[client].socket = "disconnecting"
  /\ stomp[client].session > 0

\* the service is Connecting or Connected: its current Client is active and
\* has a handshake in progress or a session open
ConnectingOrConnected ==
  /\ client # NoClient
  /\ stomp[client].active
  /\ stomp[client].socket \in {"connecting", "connected"}

\* C13: connect() called while the service is Connecting or Connected fails
\* fast: no further Client is created, no message or error callback is
\* added, and the connection state stays as it was.
C13_ConnectFailsFast ==
  [][(Service(connect) /\ ConnectingOrConnected)
       => UNCHANGED <<client, stomp, messageCallbacks, errorCallbacks, isConnected>>]_vars

(***************************************************************************)
(* Properties of the conversation state (Spec), continued                  *)
(***************************************************************************)
\* C14: no step removes a server id from the conversation: every server id
\* present before a step (an inbound envelope, a local operation, a
\* rollback, the completion of the history load) is present after it.
C14_ServerIdNeverRemoved ==
  [][(Ids(messages) \cap ServerIds) \subseteq Ids(messages')]_vars

MayModify(m) == m.senderId = Me /\ ~m.isDeleted

\* C17: handleEditMessage and handleDeleteMessage called for an entry the
\* user did not write, or for a tombstoned entry, are rejected before any
\* request is issued and leave the conversation unchanged.
C17_ModifyAuthorized ==
  [][/\ \A messageId \in Ids(messages), newContent \in EditInputs :
          ( /\ handleEditMessageOf(messageId, newContent)
            /\ ~MayModify(FindById(messages, messageId)) )
          => /\ messages' = messages
             /\ pendingEdits' = pendingEdits
     /\ \A messageId \in Ids(messages) :
          ( /\ handleDeleteMessageOf(messageId)
            /\ ~MayModify(FindById(messages, messageId)) )
          => /\ messages' = messages
             /\ snackbar'.severity # "success"]_vars

\* C18: handleDeleteMessage whose delete request fails (the service is not
\* connected, so nothing is published) leaves the entry as it was before
\* the delete (content and isDeleted of the snapshot) and reports an error,
\* not success.
C18_DeleteRollback ==
  [][\A messageId \in Ids(messages) :
       (handleDeleteMessageOf(messageId) /\ ~published)
       => /\ messages' = messages
          /\ snackbar'.open
          /\ snackbar'.severity = "error"]_vars

\* C19: a send, public or private, adds to the conversation one entry that
\* carries the content, a negative id not used before and the client's
\* current time as timestamp.
C19_ProvisionalInserted ==
  [][\A content \in Contents :
       (handleSendMessageOf(content, NoUser) \/ handlePrivateMessageSendOf(content))
       => /\ Len(messages') = Len(messages) + 1
          /\ \E i \in DOMAIN messages' :
               /\ messages'[i].content = content
               /\ messages'[i].id < 0
               /\ messages'[i].id \notin Ids(messages)
               /\ messages'[i].timestamp = ToISOString(now)]_vars

\* C20: a private send whose create request cannot be submitted (the
\* service is not connected) leaves no provisional entry in the conversation
\* and reports an error.
C20_SendFailureRemoves ==
  [][\A content \in Contents :
       (handlePrivateMessageSendOf(content) /\ ~published)
       => /\ Ids(messages') \subseteq Ids(messages)
          /\ snackbar'.open
          /\ snackbar'.severity = "error"]_vars

\* the conversation holds nothing but entries inserted from Created
\* envelopes, as they were inserted
OnlyCreated ==
  \A i \in DOMAIN messages :
    /\ messages[i].id \in ServerIds
    /\ messages[i] = newMessageOf(CreatedDTO(messages[i].id), now)

\* C21: the conversation that results from a set of Created envelopes with
\* distinct ids does not depend on their arrival order: from a conversation
\* built from Created envelopes only, two further Created envelopes give the
\* same sequence in either order, also when their timestamps are equal.
C21_ArrivalOrderIrrelevant ==
  OnlyCreated =>
    \A a, b \in CreatedDTOs :
      (a.id # b.id /\ a.id \notin Ids(messages) /\ b.id \notin Ids(messages))
      => reconcile(reconcile(messages, a, now), b, now)
           = reconcile(reconcile(messages, b, now), a, now)

\* C24: an Edited or Deleted envelope whose id is not in the conversation
\* leaves the conversation exactly as it was.
C24_AbsentIdDiscarded ==
  [][\A message \in EditedDTOs \cup DeletedDTOs :
       (handleNewMessage(message) /\ message.id \notin Ids(messages))
       => messages' = messages]_vars

\* an Edited envelope for an absent id arrived while the conversation held
\* another entry
C24_Witness ==
  /\ lastOp = Op("MESSAGE_EDIT", NoId, FALSE)
  /\ Len(messages) >= 1

\* C25: a Deleted envelope leaves id, senderId, receiverId, timestamp and
\* lastEdited of the tombstoned entry as they were, and every other entry
\* unchanged.
C25_DeleteKeepsIdentity ==
  [][\A message \in DeletedDTOs :
       handleNewMessage(message)
       => /\ Len(messages') = Len(messages)
          /\ \A i \in DOMAIN messages :
               IF messages[i].id = message.id
               THEN /\ messages'[i].id = messages[i].id
                    /\ messages'[i].senderId = messages[i].senderId
                    /\ messages'[i].receiverId = messages[i].receiverId
                    /\ messages'[i].timestamp = messages[i].timestamp
                    /\ messages'[i].lastEdited = messages[i].lastEdited
               ELSE messages'[i] = messages[i]]_vars

\* a Deleted envelope has tombstoned an entry that had been edited
C25_Witness ==
  /\ lastOp = Op("MESSAGE_DELETE", NoId, TRUE)
  /\ \E i \in DOMAIN messages :
       messages[i].isDeleted /\ messages[i].lastEdited # NoTime

\* C26: lastEdited is set exactly by edits: an applied Edited envelope and an
\* applied local edit leave it set on the entry; a Created envelope for a
\* present id, a Deleted envelope and a rolled-back edit leave every
\* lastEdited that was unset unset.
C26_LastEditedIffEdited ==
  [][LET unsetKept == \A i \in DOMAIN messages' :
                        i \in DOMAIN messages /\ messages[i].lastEdited = NoTime
                          => messages'[i].lastEdited = NoTime
         setOn(id) == \A i \in DOMAIN messages' :
                        messages'[i].id = id => messages'[i].lastEdited # NoTime
     IN /\ \A message \in EditedDTOs :
             (handleNewMessage(message) /\ message.id \in Ids(messages))
             => setOn(message.id)
        /\ \A messageId \in Ids(messages), newContent \in EditInputs :
             (handleEditMessageOf(messageId, newContent) /\ lastOp'.op = "EDIT")
             => setOn(messageId)
        /\ \A message \in CreatedDTOs \cup DeletedDTOs :
             (handleNewMessage(message) /\ message.id \in Ids(messages))
             => unsetKept
        /\ \A i \in DOMAIN pendingEdits :
             (editResolvedAt(i, FALSE) /\ pendingEdits[i].messageToEdit.lastEdited = NoTime)
             => \A k \in DOMAIN messages' :
                  messages'[k].id = pendingEdits[i].messageId
                    => messages'[k].lastEdited = NoTime]_vars

(***************************************************************************)
(* Properties of the connection service (SpecConn), continued              *)
(***************************************************************************)
\* C27: the connected indicator of the presentation layer follows the
\* connection state: it is never true while the service is not Connected.
C27_IndicatorFollowsState == chatIsConnected => isConnected

(***************************************************************************)
(* Properties of the frame handlers (SpecRouter)                           *)
(***************************************************************************)
\* C22: a frame whose body does not parse is dropped: the conversation and
\* the subscriptions are unchanged, no message or error callback is invoked,
\* no exception leaves the frame handler, and every subscription that was
\* open is still open for the frames that follow.
C22_MalformedFrameDropped ==
  [][\A k \in SubscriptionKeys, message \in CreatedDTOs :
       receiveFrame(k, FALSE, message)
       => /\ messages' = messages
          /\ subscriptions' = subscriptions
          /\ dispatch'.messageCalls = 0
          /\ dispatch'.errorCalls = 0
          /\ ~dispatch'.escaped
          /\ \A k2 \in SubscriptionKeys : subscribed(k2) => subscribed(k2)']_vars

\* C23: a frame of the error queue is handed to the error callbacks only:
\* every error callback is invoked once, no message callback is invoked and
\* the conversation is unchanged.
C23_ErrorFrameNotReconciled ==
  [][\A parsed \in BOOLEAN, message \in CreatedDTOs :
       receiveFrame("errors", parsed, message)
       => /\ messages' = messages
          /\ dispatch'.messageCalls = 0
          /\ parsed => dispatch'.errorCalls = Len(errorCallbacks)]_vars

\* an error frame reached the error callback while the conversation held
\* an entry
C23_Witness ==
  /\ dispatch.key = "errors"
  /\ dispatch.parsed
  /\ dispatch.errorCalls >= 1
  /\ snackbar = Snack("Connection error", "error")
  /\ messages # <<>>

\* C30: a frame of a message queue whose body parses invokes the
\* conversation handler exactly once, whatever connect and disconnect calls
\* preceded it.
C30_HandlerInvokedOnce ==
  [][\A k \in {"public", "user-messages"}, message \in CreatedDTOs :
       receiveFrame(k, TRUE, message) => dispatch'.messageCalls = 1]_vars

(***************************************************************************)
(* Liveness of the connection service (SpecConnLive)                       *)
(***************************************************************************)
\* disconnect() has not been called: no Client was deactivated
NeverDisconnected ==
  /\ ~shutdown
  /\ \A c \in DOMAIN stomp : stomp[c].active

\* the service is Connected and every subscription is held on an open session
ConnectedAndSubscribed ==
  /\ isConnected
  /\ \A k \in SubscriptionKeys : subscribed(k)

\* C28: as long as disconnect() is not called, the service does not give up
\* after transport failures: whenever a failure has occurred, the service is
\* eventually Connected again with its subscriptions issued on an open
\* session.
C28_ReconnectsUntilDisconnect ==
  (failures > 0 /\ NeverDisconnected)
    ~> (~NeverDisconnected \/ ConnectedAndSubscribed)

\* after transport failures and a reconnect attempt the service is Connected
\* again, subscribed on the new session
C28_Witness ==
  /\ NeverDisconnected
  /\ failures > 0
  /\ attempts > 0
  /\ ConnectedAndSubscribed
  /\ stomp[client].session >= 2

(***************************************************************************)
(* Notifications: forEach over a callback registry whose callbacks call    *)
(* back into the service                                                   *)
(***************************************************************************)
\* what a registered callback does when it is invoked: nothing to the
\* service, one of the registration methods, or disconnect()
HandlerCalls == {"none", "onMessage", "onError", "onConnect", "onDisconnect",
                 "disconnect"}

RegistryNames == {"messageCallbacks", "errorCallbacks", "connectCallbacks",
                  "disconnectCallbacks"}

\* the registry a registration method pushes to
Target(call) ==
  CASE call = "onMessage" -> "messageCallbacks"
    [] call = "onError" -> "errorCallbacks"
    [] call = "onConnect" -> "connectCallbacks"
    [] call = "onDisconnect" -> "disconnectCallbacks"

\* the fields of the service
service ==
  [messageCallbacks |-> messageCallbacks, errorCallbacks |-> errorCallbacks,
   connectCallbacks |-> connectCallbacks,
   disconnectCallbacks |-> disconnectCallbacks,
   subscriptions |-> subscriptions, stomp |-> stomp, client |-> client,
   isConnected |-> isConnected, shutdown |-> shutdown]

\* disconnect() as a function of the fields: every registry field is
\* assigned a new empty array
disconnectOf(s) ==
  [s EXCEPT !.messageCallbacks = <<>>,
            !.errorCallbacks = <<>>,
            !.connectCallbacks = <<>>,
            !.disconnectCallbacks = <<>>,
            !.subscriptions = <<>>,
            !.stomp = IF s.client # NoClient THEN deactivate(@, s.client) ELSE @,
            !.isConnected = IF s.client # NoClient THEN FALSE ELSE @,
            !.shutdown = TRUE]

\* a forEach that reads the elements from the registry field
iteratedField(it, r) == it.s[r]

\* the array forEach reads its elements from: the array object the registry
\* field referred to when forEach was called
iterated(it, r) == it.array

\* the callback h runs during a forEach over registry r: a registration
\* method pushes to the array its field refers to, which is the iterated
\* array while the field still refers to it
invoke(it, r, h) ==
  LET called == [it EXCEPT !.invoked = Append(@, h.id)]
  IN IF h.calls = "none" THEN called
     ELSE IF h.calls = "disconnect"
     THEN [called EXCEPT !.s = disconnectOf(@), !.aliased = FALSE]
     ELSE LET t == Target(h.calls)
              callback == [id |-> it.nextId, calls |-> "none"]
          IN [called EXCEPT !.s[t] = Append(@, callback),
                            !.nextId = @ + 1,
                            !.array = IF t = r /\ it.aliased
                                      THEN Append(@, callback) ELSE @]

\* Array.prototype.forEach: the length is read once, index k is visited when
\* the array has an element there
RECURSIVE forEach(_, _, _, _)
forEach(it, r, k, len) ==
  IF k > len THEN it
  ELSE IF k > Len(iterated(it, r)) THEN forEach(it, r, k + 1, len)
  ELSE forEach(invoke(it, r, iterated(it, r)[k]), r, k + 1, len)

\* this.<r>.forEach(callback => callback(...)) on the fields s
notify(s, r) ==
  forEach([s |-> s, array |-> s[r], aliased |-> TRUE, invoked |-> <<>>,
           nextId |-> fanout.nextId], r, 1, Len(s[r]))

\* the fields after the notification, and its record
notified(s, r) ==
  LET it == notify(s, r)
  IN /\ messageCallbacks' = it.s.messageCallbacks
     /\ errorCallbacks' = it.s.errorCallbacks
     /\ connectCallbacks' = it.s.connectCallbacks
     /\ disconnectCallbacks' = it.s.disconnectCallbacks
     /\ subscriptions' = it.s.subscriptions
     /\ stomp' = it.s.stomp
     /\ isConnected' = it.s.isConnected
     /\ shutdown' = it.s.shutdown
     /\ fanout' = [over |-> r,
                   before |-> [n \in RegistryNames |-> s[n]],
                   snapshot |-> s[r],
                   invoked |-> it.invoked,
                   firstId |-> fanout.nextId,
                   nextId |-> it.nextId,
                   count |-> fanout.count + 1]
     /\ UNCHANGED <<client, failures, attempts, delays, lateAttempts>>
     /\ UNCHANGED <<chatVars, chatIsConnected, dispatch, outbox>>

\* the onConnect callback of Client c with its forEach over connectCallbacks
connectNotification(c) ==
  LET opened == [stomp EXCEPT ![c].socket = "connected",
                              ![c].session = stomp[c].session + 1]
      setup == setupSubscriptions(subscriptions, client, opened)
  IN /\ fanout.count < MaxNotifications
     /\ stomp[c].active
     /\ stomp[c].socket = "connecting"
     /\ setup.done
     /\ notified([service EXCEPT !.stomp = opened, !.isConnected = TRUE,
                                 !.subscriptions = setup.subs],
                 "connectCallbacks")

\* the onStompError callback of Client c: forEach over errorCallbacks
stompErrorNotification(c) ==
  /\ fanout.count < MaxNotifications
  /\ stomp[c].socket = "connected"
  /\ notified(service, "errorCallbacks")

\* the onDisconnect callback of Client c with its forEach over
\* disconnectCallbacks
disconnectNotification(c) ==
  /\ fanout.count < MaxNotifications
  /\ stomp[c].socket = "disconnecting"
  /\ notified([service EXCEPT !.stomp = [stomp EXCEPT ![c].socket = "closing"],
                              !.isConnected = FALSE],
              "disconnectCallbacks")

\* handleIncomingMessage(message): forEach over messageCallbacks
messageNotification ==
  /\ fanout.count < MaxNotifications
  /\ subscribed("public")
  /\ notified(service, "messageCallbacks")

\* the callbacks with the identities base + 1, base + 2, ...
Handlers(calls, base) ==
  [i \in DOMAIN calls |-> [id |-> base + i, calls |-> calls[i]]]

\* a service after connect(), which registered a message and an error
\* callback, with its Client handshaking or connected, and up to MaxHandlers
\* callbacks in its registries
NotificationInit ==
  /\ ChatInit
  /\ chatIsConnected = FALSE
  /\ dispatch = NoDispatch
  /\ outbox = NoOutbox
  /\ client = 1
  /\ shutdown = FALSE
  /\ failures = 0
  /\ attempts = 0
  /\ delays = <<>>
  /\ lateAttempts = 0
  /\ \E open \in BOOLEAN :
       /\ isConnected = open
       /\ stomp = <<[active |-> TRUE,
                     socket |-> IF open THEN "connected" ELSE "connecting",
                     timer |-> FALSE,
                     session |-> IF open THEN 1 ELSE 0]>>
       /\ subscriptions = IF open
                          THEN [k \in SubscriptionKeys |->
                                  [client |-> 1, session |-> 1]]
                          ELSE <<>>
  /\ \E lm \in 1..MaxHandlers, le \in 1..MaxHandlers,
        lc \in 0..MaxHandlers, ld \in 0..MaxHandlers :
       /\ lm + le + lc + ld <= MaxHandlers
       /\ \E m \in [1..lm -> HandlerCalls], e \in [1..le -> HandlerCalls],
             c \in [1..lc -> HandlerCalls], d \in [1..ld -> HandlerCalls] :
            /\ messageCallbacks = Handlers(m, 0)
            /\ errorCallbacks = Handlers(e, lm)
            /\ connectCallbacks = Handlers(c, lm + le)
            /\ disconnectCallbacks = Handlers(d, lm + le + lc)
            /\ fanout = [NoFanout EXCEPT !.firstId = lm + le + lc + ld + 1,
                                         !.nextId = lm + le + lc + ld + 1]

NotificationNext ==
  \/ \E c \in DOMAIN stomp : connectNotification(c)
  \/ \E c \in DOMAIN stomp : stompErrorNotification(c)
  \/ \E c \in DOMAIN stomp : disconnectNotification(c)
  \/ messageNotification

\* notifications of a service whose callbacks call back into it
SpecNotification == NotificationInit /\ [][NotificationNext]_vars

\* the registries after the calls the callbacks of `snapshot` make, made one
\* after the other: a registration appends its callback, disconnect()
\* empties every registry
RECURSIVE asked(_, _, _, _)
asked(regs, snapshot, k, id) ==
  IF k > Len(snapshot) THEN regs
  ELSE IF snapshot[k].calls = "none" THEN asked(regs, snapshot, k + 1, id)
  ELSE IF snapshot[k].calls = "disconnect"
  THEN asked([n \in RegistryNames |-> <<>>], snapshot, k + 1, id)
  ELSE asked([regs EXCEPT ![Target(snapshot[k].calls)] =
                Append(@, [id |-> id, calls |-> "none"])],
             snapshot, k + 1, id + 1)

\* C29: a notification whose callbacks call a registration method or
\* disconnect() runs to its end, over every callback that was registered
\* when it started, invokes no callback twice, and leaves the registries as
\* the calls made from inside the callbacks asked: each registration
\* appended, every registry empty after disconnect().
C29_ReentrantCallsSafe ==
  fanout.over # "none" =>
    /\ \A i \in DOMAIN fanout.snapshot :
         \E j \in DOMAIN fanout.invoked : fanout.invoked[j] = fanout.snapshot[i].id
    /\ \A i, j \in DOMAIN fanout.invoked :
         i # j => fanout.invoked[i] # fanout.invoked[j]
    /\ [n \in RegistryNames |-> service[n]]
         = asked(fanout.before, fanout.snapshot, 1, fanout.firstId)

\* a notification in which one callback called disconnect() and a later one
\* registered a callback in the registry being iterated
C29_Witness ==
  /\ fanout.over # "none"
  /\ Len(fanout.snapshot) >= 2
  /\ fanout.snapshot[1].calls = "disconnect"
  /\ fanout.snapshot[2].calls \in {"onMessage", "onError", "onConnect", "onDisconnect"}
  /\ Target(fanout.snapshot[2].calls) = fanout.over
  /\ Len(fanout.invoked) = Len(fanout.snapshot)
  /\ Len(service[fanout.over]) = 1

\* C31: a rollback of a failed edit undoes only that edit: when the entry no
\* longer carries the content the edit wrote, because a Deleted or Edited
\* envelope or a later local edit changed it while the request was in
\* flight, the rollback leaves that content and the tombstone flag in place.
C31_RollbackKeepsLaterChanges ==
  [][\A i \in DOMAIN pendingEdits :
       LET p == pendingEdits[i]
       IN (/\ editResolvedAt(i, FALSE)
           /\ p.messageId \in Ids(messages)
           /\ FindById(messages, p.messageId).content # p.newContent)
          => /\ FindById(messages', p.messageId).content
                  = FindById(messages, p.messageId).content
             /\ FindById(messages', p.messageId).isDeleted
                  = FindById(messages, p.messageId).isDeleted]_vars

(***************************************************************************)
(* Frames after disconnect() (SpecLate)                                    *)
(***************************************************************************)
\* C32: disconnect() leaves no message or error callback registered, and
\* from its return until the next connect() no frame whose body parses,
\* arriving on an open subscription or late on the session being closed,
\* invokes a message or error callback or changes the conversation.
C32_NoHandlerAfterDisconnect ==
  [][/\ disconnect => (messageCallbacks' = <<>> /\ errorCallbacks' = <<>>)
     /\ shutdown =>
          \A k \in SubscriptionKeys, message \in CreatedDTOs :
            (receiveFrame(k, TRUE, message) \/ lateFrame(k, TRUE, message))
            => /\ dispatch'.messageCalls = 0
               /\ dispatch'.errorCalls = 0
               /\ messages' = messages]_vars

\* a message frame that parses arrived late, after disconnect() had returned
\* on a service that had a message callback and an open session
C32_Witness ==
  /\ shutdown
  /\ dispatch.late
  /\ dispatch.parsed
  /\ dispatch.key = "public"
  /\ \E c \in DOMAIN stomp : stomp[c].session >= 1 /\ ~stomp[c].active

(***************************************************************************)
(* The send methods of the service (SpecSend)                              *)
(***************************************************************************)
\* Client.publish transmits the frame on the open STOMP session of Client
\* cl and throws when cl has none
transmits(st, cl) == st[cl].socket = "connected"

\* the service holds the connected flag and a Client whose session is open
ConnectedWithLiveClient ==
  /\ isConnected
  /\ client # NoClient
  /\ stomp[client].active
  /\ stomp[client].socket = "connected"

\* the body shared by sendPublicMessage, sendPrivateMessage, editMessage and
\* deleteMessage: publish under `if (this.isConnected && this.client)`,
\* console.warn otherwise
sendOf(op) ==
  /\ outbox.count < MaxPublished
  /\ outbox' =
       IF published
       THEN IF transmits(stomp, client)
            THEN [count |-> outbox.count + 1, op |-> op, transmitted |-> TRUE,
                  returned |-> "void"]
            ELSE [count |-> outbox.count, op |-> op, transmitted |-> FALSE,
                  returned |-> "threw"]
       ELSE [count |-> outbox.count, op |-> op, transmitted |-> FALSE,
             returned |-> "void"]
  /\ UNCHANGED <<chatVars, connVars, chatIsConnected, dispatch, fanout>>

sendPublicMessage == sendOf("sendPublicMessage")
sendPrivateMessage == sendOf("sendPrivateMessage")
editMessage == sendOf("editMessage")
deleteMessage == sendOf("deleteMessage")

\* an outcome that broadcasts before the REST request has answered
durableOutcomeBroadcastFirst(valid, restOk, pub, trans) ==
  IF ~valid THEN [transmitted |-> FALSE, returned |-> "false"]
  ELSE IF pub /\ trans
  THEN [transmitted |-> TRUE, returned |-> IF restOk THEN "true" ELSE "false"]
  ELSE [transmitted |-> FALSE,
        returned |-> IF restOk /\ ~pub THEN "true" ELSE "false"]

\* async editMessage / deleteMessage: validation, `await messageAPI...`,
\* then the broadcast under `if (this.isConnected && this.client)`, all in
\* one try whose catch returns false
durableOutcome(valid, restOk, pub, trans) ==
  IF ~valid THEN [transmitted |-> FALSE, returned |-> "false"]
  ELSE IF ~restOk THEN [transmitted |-> FALSE, returned |-> "false"]
  ELSE IF pub
  THEN IF trans THEN [transmitted |-> TRUE, returned |-> "true"]
       ELSE [transmitted |-> FALSE, returned |-> "false"]
  ELSE [transmitted |-> FALSE, returned |-> "true"]

\* a call of an async method resumes after its REST request
durableOf(op, valid, restOk) ==
  LET outcome == durableOutcome(valid, restOk, published,
                                client # NoClient /\ transmits(stomp, client))
  IN /\ outbox.count < MaxPublished
     /\ outbox' = [count |-> IF outcome.transmitted THEN outbox.count + 1
                             ELSE outbox.count,
                   op |-> op, transmitted |-> outcome.transmitted,
                   returned |-> outcome.returned]
     /\ UNCHANGED <<chatVars, connVars, chatIsConnected, dispatch, fanout>>

\* async editMessage(messageId, userId, newContent)
editMessageDurable(messageId, userId, newContent, restOk) ==
  durableOf("editMessageDurable",
            editMessageResult(messageId, userId, newContent, TRUE), restOk)

\* async deleteMessage(messageId, userId)
deleteMessageDurable(restOk) == durableOf("deleteMessageDurable", TRUE, restOk)

SendNext ==
  \/ Service(connect)
  \/ Service(disconnect)
  \/ \E c \in DOMAIN stomp : Service(clientOnConnect(c))
  \/ \E c \in DOMAIN stomp : Service(clientOnWebSocketClose(c))
  \/ \E c \in DOMAIN stomp : Service(clientReconnect(c))
  \/ \E c \in DOMAIN stomp : Service(clientOnDisconnect(c))
  \/ \E c \in DOMAIN stomp : Service(clientOnClosed(c))
  \/ sendPublicMessage
  \/ sendPrivateMessage
  \/ editMessage
  \/ deleteMessage

\* the service with its send methods called in any connection state
SpecSend == Init /\ [][SendNext]_vars

DurableNext ==
  \/ Service(connect)
  \/ Service(disconnect)
  \/ \E c \in DOMAIN stomp : Service(clientOnConnect(c))
  \/ \E c \in DOMAIN stomp : Service(clientOnDisconnect(c))
  \/ \E c \in DOMAIN stomp : Service(clientOnClosed(c))
  \/ \E messageId \in {NoId, 1}, newContent \in {"", " ", "A"}, restOk \in BOOLEAN :
       editMessageDurable(messageId, Me, newContent, restOk)
  \/ \E restOk \in BOOLEAN : deleteMessageDurable(restOk)

\* the service with its async edit and delete resuming in any connection
\* state
SpecDurable == Init /\ [][DurableNext]_vars

\* C33: the async editMessage and deleteMessage transmit a frame only when
\* their REST request succeeded; when it fails they return false and
\* transmit nothing.
C33_BroadcastAfterDurable ==
  [][\A restOk \in BOOLEAN :
       (\/ \E messageId \in {NoId, 1}, newContent \in {"", " ", "A"} :
             editMessageDurable(messageId, Me, newContent, restOk)
        \/ deleteMessageDurable(restOk))
       => /\ outbox'.transmitted => restOk
          /\ ~restOk => (outbox'.returned = "false" /\ outbox'.count = outbox.count)]_vars

\* an async edit whose REST request succeeded was broadcast on the open
\* session
C33_Witness ==
  /\ outbox.op = "editMessageDurable"
  /\ outbox.transmitted
  /\ outbox.returned = "true"
  /\ outbox.count >= 1

\* C34: a frame is transmitted only by a step taken while the service holds
\* the connected flag and a live Client with an open session; a send method
\* called in any other state transmits nothing, and no later step, a
\* reconnect included, transmits a frame for it.
C34_PublishOnlyWhenConnected ==
  [][/\ outbox'.count # outbox.count => ConnectedWithLiveClient
     /\ \A op \in {"sendPublicMessage", "sendPrivateMessage", "editMessage",
                   "deleteMessage"} :
          (sendOf(op) /\ ~ConnectedWithLiveClient)
          => (outbox'.count = outbox.count /\ ~outbox'.transmitted)]_vars

\* a send method was called while the service was not connected, nothing
\* has been transmitted, and the service is connected again after a
\* reconnect
C34_Witness ==
  /\ outbox.op = "sendPublicMessage"
  /\ ~outbox.transmitted
  /\ outbox.count = 0
  /\ attempts > 0
  /\ ConnectedWithLiveClient

(***************************************************************************)
(* The history load on any stored conversation (SpecHistory)               *)
(***************************************************************************)
\* timestamps of stored messages: two instants of one millisecond and one
\* of the next
StoredTimes == {T0 * TsUnit, T0 * TsUnit + 1, (T0 + 1) * TsUnit}

\* what the server stores for each id: content, timestamp, and whether the
\* message is private; every message was sent by the user
Stores == [ServerIds -> Contents \X StoredTimes \X BOOLEAN]

\* the Message the REST history returns for id in store
StoredMessage(store, id) ==
  [id |-> id, content |-> store[id][1], senderId |-> Me,
   receiverId |-> IF store[id][3] THEN Other ELSE NoUser,
   messageType |-> IF store[id][3] THEN "PRIVATE" ELSE "PUBLIC",
   timestamp |-> store[id][2], lastEdited |-> NoTime, isDeleted |-> FALSE]

RECURSIVE StoredResponse(_, _)
\* a response body: the chosen messages of store in id order
StoredResponse(store, S) ==
  IF S = {} THEN <<>>
  ELSE <<StoredMessage(store, Min(S))>> \o StoredResponse(store, S \ {Min(S)})

\* loadMessageHistory() on mount, completing with the responses of
\* getPublicMessages() and getUserMessages(user.id)
loadMessageHistoryFrom(store, pub, usr) ==
  /\ lastOp.op = "none"
  /\ messages' = loadedHistory(StoredResponse(store, pub), StoredResponse(store, usr))
  /\ lastOp' = Op("HISTORY", NoId, pub \cap usr # {})
  /\ UNCHANGED <<snackbar, pendingEdits, now, steps, connVars, notifyVars>>

HistoryNext ==
  \E store \in Stores :
    \E pub \in SUBSET {id \in ServerIds : ~store[id][3]}, usr \in SUBSET ServerIds :
      loadMessageHistoryFrom(store, pub, usr)

\* one history load over every stored conversation
SpecHistory == Init /\ [][HistoryNext]_vars

\* C35: the conversation a history load sets holds every id that one of the
\* two responses returned.
C35_HistoryKeepsEveryId ==
  [][\A store \in Stores :
       \A pub \in SUBSET {id \in ServerIds : ~store[id][3]}, usr \in SUBSET ServerIds :
         loadMessageHistoryFrom(store, pub, usr)
         => (pub \cup usr) \subseteq Ids(messages')]_vars

(***************************************************************************)
(* The connect notification (SpecConn)                                     *)
(***************************************************************************)
\* C36: when a handshake turns the connected indicator on, that is when the
\* connect callbacks are run, every subscription is by then held on the
\* open session of the current Client.
C36_SubscribedBeforeNotified ==
  [][\A c \in DOMAIN stomp :
       (clientOnConnect(c) /\ ~chatIsConnected /\ chatIsConnected')
       => \A k \in SubscriptionKeys : subscribed(k)']_vars

\* the connect callbacks ran after a reconnect and every subscription is
\* held on the new session
C36_Witness ==
  /\ chatIsConnected
  /\ snackbar = Snack("Connected to chat", "success")
  /\ attempts > 0
  /\ \A k \in SubscriptionKeys : subscribed(k)

(***************************************************************************)
(* Envelopes of other types                                                *)
(***************************************************************************)
\* a ChatMessageDTO of type ERROR, with or without an id
ErrorDTO(id) ==
  [type |-> "ERROR", id |-> id, content |-> "A",
   sender |-> UserString(Me), receiver |-> NoReceiver,
   timestamp |-> NoTime, lastEdited |-> NoTime, isDeleted |-> FALSE]

ErrorDTOs == {ErrorDTO(id) : id \in ServerIds \cup {NoId}}

\* an envelope of type ERROR reaches handleNewMessage
ReceiveOther == \E message \in ErrorDTOs : handleNewMessage(message)

EnvelopeNext ==
  \/ Run(ReceiveCreated)
  \/ Run(ReceiveEdited)
  \/ Run(ReceiveDeleted)
  \/ Run(ReceiveOther)

\* the conversation under envelopes of every type
SpecEnvelope == Init /\ [][EnvelopeNext]_vars

\* C37: handleNewMessage leaves the conversation as it is for an envelope
\* whose type is none of PUBLIC, PRIVATE, MESSAGE_EDIT, MESSAGE_DELETE: no
\* entry is inserted and none is changed.
C37_OtherTypeIgnored ==
  [][\A message \in ErrorDTOs :
       handleNewMessage(message) => messages' = messages]_vars

=============================================================================
